---- MODULE Spec2Model ----
(***************************************************************************)
(* A model of the two utilities of the repository:                         *)
(*   camel_plot                      (src/camelplot.py)                    *)
(*   extract_elevation_from_glah14   (src/extract_elevation_from_glah14.py)*)
(*                                                                         *)
(* camel_plot is modelled statement group by statement group with a        *)
(* program counter; the plotting library is modelled by what its calls     *)
(* leave on an axes (a sequence of artists, a legend, the styling) and by  *)
(* what they return, which is what the local name `ax` is rebound to.      *)
(* Real numbers are kept exact: a grid abscissa is stored multiplied by    *)
(* GridLen - 1, a mean as the pair (sum, count), a square root as the pair *)
(* (radicand, integer part), a density in fixed point.                     *)
(***************************************************************************)
EXTENDS Integers, Sequences, FiniteSets, TLC

VARIABLES
    \* ---- camel_plot ----
    df,          \* the sample table: a sequence of [age, uncertainty, group]
    has_blank,   \* keyword argument
    overall,     \* keyword argument
    gca_is_ax,   \* whether pyplot's current axes is the axes passed as `ax`
    pc,          \* "loop", "aggregate", "legend", "style", "done", "error"
    i,           \* index of the next row of the for loop
    ax,          \* what the local name `ax` is bound to
    artists,     \* per axes: the artists drawn on it, in drawing order
    legend,      \* per axes: the entries of its legend (<<>>: no legend)
    styled,      \* the axes the final styling was applied to
    handles,     \* the list `handles`
    labels,      \* the list `labels`
    data_cache,  \* the list `data_cache`
    mu_all,      \* the aggregate mean
    sigma_all,   \* the aggregate uncertainty
    \* ---- extract_elevation_from_glah14 ----
    in_file_name,  \* argument: the path, a sequence of characters
    out_format,    \* argument
    bbox,          \* arguments long_min, long_max, lat_min, lat_max
    h5,            \* the content of the input file: datasets and attributes
    globals,       \* the module globals the function's free names resolve in
    xpc,           \* "read", "filter", "time", "remap", "correct", "write", "done", "error"
    frame,         \* the DataFrame `df`
    written        \* the files written so far

camelVars == <<df, has_blank, overall, gca_is_ax, pc, i, ax, artists, legend,
               styled, handles, labels, data_cache, mu_all, sigma_all>>

extractVars == <<in_file_name, out_format, bbox, h5, globals, xpc, frame, written>>

vars == <<camelVars, extractVars>>

\* ------------------------------------------------------------------ bounds

\* Longest sample table explored.
MaxLen == 3
\* Most rows in an input file explored.
MaxRows == 2

\* ------------------------------------------------------- program constants

\* np.linspace(..., 100)
GridLen == 100
\* the 4 of mu - 4*sigma, mu + 4*sigma
SigmaSpan == 4
\* sns.set_palette('colorblind'): a cycle of ten colours
PaletteSize == 10

\* ------------------------------------------------------------ small helpers

Abs(x) == IF x < 0 THEN -x ELSE x

RECURSIVE SeqSum(_)
SeqSum(s) == IF s = <<>> THEN 0 ELSE Head(s) + SeqSum(Tail(s))

\* max(s) of a non-empty sequence
SeqMax(s) ==
    LET S == {s[k] : k \in 1..Len(s)} IN CHOOSE m \in S : \A x \in S : x <= m

\* All sequences over S of length at most n.
SeqsUpTo(S, n) == UNION {[1..k -> S] : k \in 0..n}

\* ---------------------------------------------------------------- inputs

\* The rows of the table the module itself plots (lines 106-108).
SamplePool ==
    { [age |-> 21000, uncertainty |-> 3000, group |-> "a"],
      [age |-> 16900, uncertainty |-> 2100, group |-> "b"],
      [age |-> 7500,  uncertainty |-> 2000, group |-> "blank"] }

Axes == {"target", "other"}

\* plt.gca(): the axes pyplot currently draws on.
Gca == IF gca_is_ax THEN "target" ELSE "other"

\* ------------------------------------------------------------- numerics

\* Linspace as np.linspace(..., endpoint=False) would give it: num points of
\* step (stop-start)/num, the last one short of stop.
MutLinspace(start, stop, num) ==
    [k \in 1..num |-> (num - 1) * start + (k - 1) * (((stop - start) * (num - 1)) \div num)]

\* np.linspace(start, stop, num): num evenly spaced points from start to stop,
\* both included.  Point k (1-based) is start + (k-1)*(stop-start)/(num-1); it
\* is stored multiplied by num-1, which keeps it an integer.
Linspace(start, stop, num) ==
    [k \in 1..num |-> (num - 1) * start + (k - 1) * (stop - start)]

\* exp(-u), u and the result in units of 1/10000: exp(-u) = exp(-u/8)^8 with
\* the Taylor polynomial of degree 4 for exp(-u/8), u/8 <= 1.
ExpNeg(u) ==
    LET v  == u \div 8
        v2 == (v * v) \div 10000
        v3 == (v2 * v) \div 10000
        v4 == (v3 * v) \div 10000
        t1 == 10000 - v + (v2 \div 2) - (v3 \div 6) + (v4 \div 24)
        t2 == (t1 * t1) \div 10000
        t4 == (t2 * t2) \div 10000
    IN  (t4 * t4) \div 10000

\* stats.norm.pdf(x, mu, sigma) at one abscissa x stored multiplied by scale:
\* exp(-z^2/2) / (sigma*sqrt(2*pi)) with z = (x-mu)/sigma, in units of 1e-9.
\* sigma = 0 gives nan, modelled as 0.
NormPdfAt(x, scale, mu, sigma) ==
    IF sigma = 0 THEN 0
    ELSE LET d == Abs(x - scale * mu)
             z == ((d \div scale) * 10000) \div sigma
             u == (z * z) \div 20000
         IN  (39894 * ExpNeg(u)) \div sigma

NormPdf(xs, scale, mu, sigma) ==
    [k \in 1..Len(xs) |-> NormPdfAt(xs[k], scale, mu, sigma)]

\* data / num_samples, elementwise
DivideBy(data, n) == [k \in 1..Len(data) |-> data[k] \div n]

\* The integer part of np.sqrt(n).
RECURSIVE SqrtSearch(_, _, _)
SqrtSearch(n, lo, hi) ==
    IF lo >= hi THEN lo
    ELSE LET mid == (lo + hi + 1) \div 2
         IN  IF mid * mid <= n THEN SqrtSearch(n, mid, hi)
                               ELSE SqrtSearch(n, lo, mid - 1)

ISqrt(n) == SqrtSearch(n, 0, IF n < 46340 THEN n ELSE 46340)

\* "{:.0f}".format(num/den): the nearest integer, ties to even; "nan" when the
\* mean is taken over nothing.
FormatMean(num, den) ==
    IF den = 0 THEN "nan"
    ELSE LET q == num \div den
             r == num % den
         IN  ToString(IF 2 * r < den THEN q
                      ELSE IF 2 * r > den THEN q + 1
                      ELSE IF q % 2 = 0 THEN q ELSE q + 1)

\* "{:.0f}".format(sqrt(sq)): sqrt(sq) rounds up exactly when it exceeds
\* root + 1/2, that is when sq > root^2 + root.
FormatSqrt(sq) ==
    LET r == ISqrt(sq) IN ToString(IF sq > r * r + r THEN r + 1 ELSE r)

\* ------------------------------------------------- camel_plot: definitions

\* DfNoBlank with the blank row never dropped.
MutDfNoBlank == df

\* lines 43-47
DfNoBlank ==
    IF has_blank = TRUE THEN SelectSeq(df, LAMBDA row : row.group # "blank")
    ELSE df

\* line 49
NumSamples == Len(df)

\* the column 'age', and the column 'uncertainty' squared (np.power(..., 2))
Ages(t) == [k \in 1..Len(t) |-> t[k].age]
Squares(t) == [k \in 1..Len(t) |-> t[k].uncertainty * t[k].uncertainty]

\* line 83: np.mean(df_no_blank['age']) as the pair (sum, count)
MeanAge == [set |-> TRUE, sum |-> SeqSum(Ages(DfNoBlank)), n |-> Len(DfNoBlank)]

\* QuadratureSum taken over the rows the mean is taken over.
MutQuadratureSum == SeqSum(Squares(DfNoBlank))

\* line 84: np.sqrt(np.power(df['uncertainty'], 2).sum())
QuadratureSum == SeqSum(Squares(df))

SigmaAll == [set |-> TRUE, sq |-> QuadratureSum, ipart |-> ISqrt(QuadratureSum)]

\* The colour the property cycle of axes `a` hands to its next line.
NextCycleColor(a) ==
    "C" \o ToString(Cardinality({k \in 1..Len(artists[a]) : artists[a][k].kind = "line"})
                    % PaletteSize)

\* line 58
Grid(mu, sigma) == Linspace(mu - SigmaSpan * sigma, mu + SigmaSpan * sigma, GridLen)

\* line 59, divided by num_samples as lines 62, 65 and 76 pass it
Curve(mu, sigma) ==
    DivideBy(NormPdf(Grid(mu, sigma), GridLen - 1, mu, sigma), NumSamples)

\* line 76: max(data/num_samples)
PeakHeight(mu, sigma) == SeqMax(Curve(mu, sigma))

Artist(kind, label, color, xdata, ydata) ==
    [kind |-> kind, label |-> label, color |-> color, xdata |-> xdata, ydata |-> ydata]

\* lines 75-76: the annotation goes to pyplot's current axes, at
\* (mu*1.05, peak); the abscissa is stored in hundredths.
Annotation(row, color) ==
    Artist("text", row.group, color, <<row.age * 105>>,
           <<PeakHeight(row.age, row.uncertainty)>>)

\* lines 71-72
HandleOf(row, color) == [text |-> row.group \o ":", color |-> color]
LabelOf(row) == [mu |-> ToString(row.age), sigma |-> ToString(row.uncertainty)]

\* lines 87-88
MeanHandle == [text |-> "Mean :", color |-> "black"]
MeanLabel(m, s) == [mu |-> FormatMean(m.sum, m.n), sigma |-> FormatSqrt(s.sq)]

\* LegendEntries with an entry for the overlay's own label "overall" after
\* the custom ones.
MutLegendEntries(hs, ls) ==
    [k \in 1..(IF Len(hs) < Len(ls) THEN Len(hs) ELSE Len(ls)) |->
        [text |-> hs[k].text, color |-> hs[k].color,
         label |-> ls[k], labelcolor |-> hs[k].color]]
    \o (IF overall
        THEN <<[text |-> "overall", color |-> "black",
                label |-> [mu |-> "", sigma |-> ""], labelcolor |-> "black"]>>
        ELSE <<>>)

\* lines 89-94: one legend entry per handle, its text in the handle's colour
LegendEntries(hs, ls) ==
    [k \in 1..(IF Len(hs) < Len(ls) THEN Len(hs) ELSE Len(ls)) |->
        [text |-> hs[k].text, color |-> hs[k].color,
         label |-> ls[k], labelcolor |-> hs[k].color]]

AddArtist(a, art) == [artists EXCEPT ![a] = Append(@, art)]

\* What `ax` is bound to after line 62, ax = ax.fill_between(...): the
\* PolyCollection that fill_between returns.
AfterFill(a) == "poly"

\* What `ax` is bound to after line 65, ax = sns.lineplot(..., ax=ax): lineplot
\* returns the axes it drew on.
AfterLine(a) == a

\* What `ax` is bound to after line 81, ax = sns.kdeplot(...): called without
\* ax=, kdeplot draws on and returns pyplot's current axes.
AfterKde(a) == Gca

\* line 68: 100 draws from N(mu, sigma); only their distribution is kept.
PseudoData(row) == [loc |-> row.age, scale |-> row.uncertainty]

\* line 80: np.array(data_cache).ravel()
Ravel(dc) == [parts |-> dc.parts, shape |-> <<dc.shape[1] * dc.shape[2]>>]

\* ---------------------------------------------------- camel_plot: actions

CamelInit ==
    /\ df \in SeqsUpTo(SamplePool, MaxLen)
    /\ has_blank \in BOOLEAN
    /\ overall \in BOOLEAN
    /\ gca_is_ax \in BOOLEAN
    /\ pc = "loop"
    /\ i = 1
    /\ ax = "target"
    /\ artists = [a \in Axes |-> <<>>]
    /\ legend = [a \in Axes |-> <<>>]
    /\ styled = {}
    /\ handles = <<>>
    /\ labels = <<>>
    /\ data_cache = [parts |-> <<>>, shape |-> <<0, GridLen>>]
    /\ mu_all = [set |-> FALSE, sum |-> 0, n |-> 0]
    /\ sigma_all = [set |-> FALSE, sq |-> 0, ipart |-> 0]

\* One iteration of the for loop, lines 56-76.  A PolyCollection has neither
\* fill_between nor the axes interface lineplot needs: the call raises
\* AttributeError before anything is drawn.
DrawRecord ==
    /\ pc = "loop"
    /\ i <= Len(df)
    /\ LET row   == df[i]
           x     == Grid(row.age, row.uncertainty)
           y     == Curve(row.age, row.uncertainty)
           blank == row.group = "blank"
       IN  IF ax = "poly"
           THEN /\ pc' = "error"
                /\ UNCHANGED <<i, ax, artists, handles, labels, data_cache>>
           ELSE LET color == IF blank THEN "gray" ELSE NextCycleColor(ax)
                    drawn == AddArtist(ax, Artist(IF blank THEN "fill" ELSE "line",
                                                  row.group, color, x, y))
                IN  /\ artists' = [drawn EXCEPT ![Gca] = Append(@, Annotation(row, color))]
                    /\ ax' = IF blank THEN AfterFill(ax) ELSE AfterLine(ax)
                    /\ data_cache' =
                         IF blank THEN data_cache
                         ELSE [parts |-> Append(data_cache.parts, PseudoData(row)),
                               shape |-> <<data_cache.shape[1] + 1, Len(x)>>]
                    /\ handles' = Append(handles, HandleOf(row, color))
                    /\ labels' = Append(labels, LabelOf(row))
                    /\ i' = i + 1
                    /\ pc' = "loop"
    /\ UNCHANGED <<df, has_blank, overall, gca_is_ax, legend, styled, mu_all, sigma_all>>
    /\ UNCHANGED extractVars

\* The end of the loop and lines 79-81.  What kdeplot does with no data depends
\* on the installed seaborn: it raises, or it warns, draws nothing and returns
\* the axes.
OverallDensity ==
    /\ pc = "loop"
    /\ i > Len(df)
    /\ IF overall = TRUE
       THEN /\ data_cache' = Ravel(data_cache)
            /\ IF data_cache.parts = <<>>
               THEN \/ /\ pc' = "error"
                       /\ UNCHANGED <<ax, artists>>
                    \/ /\ pc' = "aggregate"
                       /\ ax' = AfterKde(ax)
                       /\ UNCHANGED artists
               ELSE /\ pc' = "aggregate"
                    /\ ax' = AfterKde(ax)
                    /\ artists' = AddArtist(Gca, Artist("kde", "overall", "black", <<>>, <<>>))
       ELSE /\ pc' = "aggregate"
            /\ UNCHANGED <<ax, artists, data_cache>>
    /\ UNCHANGED <<df, has_blank, overall, gca_is_ax, i, legend, styled, handles,
                   labels, mu_all, sigma_all>>
    /\ UNCHANGED extractVars

\* lines 83-88
Aggregate ==
    /\ pc = "aggregate"
    /\ mu_all' = MeanAge
    /\ sigma_all' = SigmaAll
    /\ handles' = Append(handles, MeanHandle)
    /\ labels' = Append(labels, MeanLabel(MeanAge, SigmaAll))
    /\ pc' = "legend"
    /\ UNCHANGED <<df, has_blank, overall, gca_is_ax, i, ax, artists, legend, styled,
                   data_cache>>
    /\ UNCHANGED extractVars

\* lines 89-94: a PolyCollection has no legend method.
BuildLegend ==
    /\ pc = "legend"
    /\ IF ax = "poly"
       THEN /\ pc' = "error"
            /\ UNCHANGED legend
       ELSE /\ legend' = [legend EXCEPT ![ax] = LegendEntries(handles, labels)]
            /\ pc' = "style"
    /\ UNCHANGED <<df, has_blank, overall, gca_is_ax, i, ax, artists, styled, handles,
                   labels, data_cache, mu_all, sigma_all>>
    /\ UNCHANGED extractVars

\* lines 97-103
Style ==
    /\ pc = "style"
    /\ styled' = styled \cup {ax}
    /\ pc' = "done"
    /\ UNCHANGED <<df, has_blank, overall, gca_is_ax, i, ax, artists, legend, handles,
                   labels, data_cache, mu_all, sigma_all>>
    /\ UNCHANGED extractVars

CamelNext == DrawRecord \/ OverallDensity \/ Aggregate \/ BuildLegend \/ Style


\* ------------------------------------- extract_elevation_from_glah14: inputs
\* Angles, heights and seconds are in tenths (1700 is 170.0), so that the 0.7
\* of line 77 and the fractional part int() drops are representable.

\* line 68: the accepted values of the two quality flags
SatCorrAccept == 2
ElevUseAccept == 0
\* line 75: 180 and 360.0, in tenths
HalfTurn == 1800
FullTurn == 3600
\* line 77: 0.7, in tenths
ElevOffset == 7

\* Input paths, as sequences of characters.
InputPaths ==
    { <<"a", ".", "H", "5">>,
      <<"d", "a", "t", "a", "/", "a", ".", "H", "5">>,
      <<"a", ".", "b", ".", "H", "5">>,
      <<".", "/", "d", "a", "t", "a", "/", "a", ".", "b", ".", "H", "5">> }

\* The attributes valid_min, valid_max of the four datasets that carry them.
FileAttrs ==
    [ elev |-> <<-5000, 90005>>,
      sat  |-> <<-10, 20>>,
      bias |-> <<-50, 50>>,
      srtm |-> <<-5005, 90000>> ]

GoodRow ==
    [ rec |-> 7, time |-> 1234, lat |-> 100, lon |-> 1700, elev |-> 1000, sat |-> 5,
      bias |-> 3, sat_flg |-> 2, use_flg |-> 0, geoid |-> 200, srtm |-> 1100 ]

\* Rows a file may hold: accepted ones east and west of 180, one at 180, and
\* one for each way of failing a test.
RowPool ==
    { GoodRow,
      [GoodRow EXCEPT !.lon = 2000],
      [GoodRow EXCEPT !.lon = 1800],
      [GoodRow EXCEPT !.sat = 500],
      [GoodRow EXCEPT !.bias = 900],
      [GoodRow EXCEPT !.sat_flg = 1],
      [GoodRow EXCEPT !.elev = 95000] }

\* The defaults of the signature, and a box from 175.0 to 250.0 east.
BoxPool ==
    { [long_min |-> 0, long_max |-> 3600, lat_min |-> -900, lat_max |-> 900],
      [long_min |-> 1750, long_max |-> 2500, lat_min |-> 0, lat_max |-> 500] }

\* The function uses the names `base` (line 70) and `gpd` (line 86) and binds
\* neither: they resolve in the module globals when the line runs.  `base` is
\* then the epoch the timestamps count from, here noon.
GlobalsPool ==
    { [base |-> FALSE, gpd |-> FALSE, epoch |-> 0],
      [base |-> TRUE,  gpd |-> FALSE, epoch |-> 432000],
      [base |-> TRUE,  gpd |-> TRUE,  epoch |-> 432000] }

\* ------------------------------- extract_elevation_from_glah14: definitions

\* int(x) of a float: the fractional part is dropped, towards zero.
IntTrunc(x) == IF x >= 0 THEN (x \div 10) * 10 ELSE -(((-x) \div 10) * 10)

\* lines 36, 40, 44, 56
ValidMin(field) == IntTrunc(h5.attrs[field][1])
ValidMax(field) == IntTrunc(h5.attrs[field][2])

\* lines 45-46: a bias correction outside its valid range is replaced by 0.0
ClampBias(b) ==
    LET b1 == IF b < ValidMin("bias") THEN 0 ELSE b
    IN  IF b1 > ValidMax("bias") THEN 0 ELSE b1

\* lines 58-62: one row of the DataFrame; idx is the index pandas gives it
FrameRow(k, r) ==
    [ idx |-> k - 1, RecordNumber |-> r.rec, Timestamp |-> r.time, Latitude |-> r.lat,
      Longitude |-> r.lon, Elevation |-> r.elev, Sat_ele_corr |-> r.sat,
      Ele_bias_corr |-> ClampBias(r.bias), Sat_corr_flag |-> r.sat_flg,
      Elev_use_flag |-> r.use_flg, Geoid |-> r.geoid, SRTM |-> r.srtm ]

\* lines 64-68: the mask
Keep(r) ==
    /\ r.Latitude < bbox.lat_max /\ r.Latitude > bbox.lat_min
    /\ r.Longitude < bbox.long_max /\ r.Longitude > bbox.long_min
    /\ r.Elevation < ValidMax("elev") /\ r.Elevation > ValidMin("elev")
    /\ r.SRTM < ValidMax("srtm") /\ r.SRTM > ValidMin("srtm")
    /\ r.Sat_corr_flag = SatCorrAccept /\ r.Elev_use_flag = ElevUseAccept

\* lines 70-73: base + seconds, cut to whole seconds, then the day and the
\* time of day it falls on
WithTime(r) ==
    LET t == ((globals.epoch + r.Timestamp) \div 10) * 10
    IN  [ idx |-> r.idx, RecordNumber |-> r.RecordNumber, Timestamp |-> t,
          Date |-> t \div 864000, Time |-> (t % 864000) \div 10,
          Latitude |-> r.Latitude, Longitude |-> r.Longitude, Elevation |-> r.Elevation,
          Sat_ele_corr |-> r.Sat_ele_corr, Ele_bias_corr |-> r.Ele_bias_corr,
          Geoid |-> r.Geoid, SRTM |-> r.SRTM ]

\* Remap with the test >= 180: 180.0 itself is wrapped to -180.0.
MutRemap(lon) == IF lon >= HalfTurn THEN lon - FullTurn ELSE lon

\* line 75: df.loc[df['Longitude'] > 180, 'Longitude'] -= 360.0
Remap(lon) == IF lon > HalfTurn THEN lon - FullTurn ELSE lon

\* lines 77-78
Corrected(r) ==
    [ idx |-> r.idx, RecordNumber |-> r.RecordNumber, Date |-> r.Date, Time |-> r.Time,
      Latitude |-> r.Latitude, Longitude |-> r.Longitude,
      Elevation_corrected |->
          r.Elevation + r.Sat_ele_corr + r.Ele_bias_corr - r.Geoid - ElevOffset,
      SRTM |-> r.SRTM ]

\* str.rsplit(sep)[0]: with no maxsplit the string is split at every sep, and
\* the first piece is what precedes the first sep.
RSplitFirst(s, sep) ==
    IF \E k \in 1..Len(s) : s[k] = sep
    THEN SubSeq(s, 1, (CHOOSE k \in 1..Len(s) :
                          s[k] = sep /\ \A j \in 1..(k - 1) : s[j] # sep) - 1)
    ELSE s

\* lines 81 and 87
OutputPath(name, ext) == RSplitFirst(name, ".") \o ext

\* lines 83-84: the shapefile row: a point geometry, the two columns dropped
ShapeRow(r) ==
    [ idx |-> r.idx, RecordNumber |-> r.RecordNumber, Date |-> r.Date, Time |-> r.Time,
      Elevation_corrected |-> r.Elevation_corrected, SRTM |-> r.SRTM,
      geometry |-> [x |-> r.Longitude, y |-> r.Latitude] ]


\* --------------------------------- extract_elevation_from_glah14: actions

ExtractInit ==
    /\ in_file_name \in InputPaths
    /\ out_format \in {"csv", "shp"}
    /\ bbox \in BoxPool
    /\ h5 \in [rows : SeqsUpTo(RowPool, MaxRows), attrs : {FileAttrs}]
    /\ globals \in GlobalsPool
    /\ xpc = "read"
    /\ frame = <<>>
    /\ written = <<>>

\* lines 24-62
ReadFile ==
    /\ xpc = "read"
    /\ frame' = [k \in 1..Len(h5.rows) |-> FrameRow(k, h5.rows[k])]
    /\ xpc' = "filter"
    /\ UNCHANGED <<in_file_name, out_format, bbox, h5, globals, written>>
    /\ UNCHANGED camelVars

\* lines 64-68
FilterRows ==
    /\ xpc = "filter"
    /\ frame' = SelectSeq(frame, Keep)
    /\ xpc' = "time"
    /\ UNCHANGED <<in_file_name, out_format, bbox, h5, globals, written>>
    /\ UNCHANGED camelVars

\* lines 70-73: NameError when no global `base` exists
ConvertTime ==
    /\ xpc = "time"
    /\ IF globals.base
       THEN /\ frame' = [k \in 1..Len(frame) |-> WithTime(frame[k])]
            /\ xpc' = "remap"
       ELSE /\ xpc' = "error"
            /\ UNCHANGED frame
    /\ UNCHANGED <<in_file_name, out_format, bbox, h5, globals, written>>
    /\ UNCHANGED camelVars

\* line 75
RemapLongitude ==
    /\ xpc = "remap"
    /\ frame' = [k \in 1..Len(frame) |->
                    [frame[k] EXCEPT !.Longitude = Remap(frame[k].Longitude)]]
    /\ xpc' = "correct"
    /\ UNCHANGED <<in_file_name, out_format, bbox, h5, globals, written>>
    /\ UNCHANGED camelVars

\* lines 77-78
CorrectElevation ==
    /\ xpc = "correct"
    /\ frame' = [k \in 1..Len(frame) |-> Corrected(frame[k])]
    /\ xpc' = "write"
    /\ UNCHANGED <<in_file_name, out_format, bbox, h5, globals, written>>
    /\ UNCHANGED camelVars

\* lines 80-87: NameError at line 86 when no global `gpd` exists
WriteOutput ==
    /\ xpc = "write"
    /\ IF out_format = "csv"
       THEN /\ written' = Append(written,
                   [path |-> OutputPath(in_file_name, <<".", "c", "s", "v">>),
                    format |-> "csv", rows |-> frame])
            /\ xpc' = "done"
            /\ UNCHANGED frame
       ELSE IF globals.gpd
            THEN /\ frame' = [k \in 1..Len(frame) |-> ShapeRow(frame[k])]
                 /\ written' = Append(written,
                        [path |-> OutputPath(in_file_name, <<".", "s", "h", "p">>),
                         format |-> "shp", rows |-> [k \in 1..Len(frame) |-> ShapeRow(frame[k])]])
                 /\ xpc' = "done"
            ELSE /\ frame' = [k \in 1..Len(frame) |-> ShapeRow(frame[k])]
                 /\ xpc' = "error"
                 /\ UNCHANGED written
    /\ UNCHANGED <<in_file_name, out_format, bbox, h5, globals>>
    /\ UNCHANGED camelVars

ExtractNext ==
    ReadFile \/ FilterRows \/ ConvertTime \/ RemapLongitude \/ CorrectElevation \/ WriteOutput

\* ------------------------------------------------------- specifications

\* The function that is not running: its variables hold one fixed value.
CamelIdle ==
    /\ df = <<>> /\ has_blank = FALSE /\ overall = FALSE /\ gca_is_ax = TRUE
    /\ pc = "idle" /\ i = 1 /\ ax = "target"
    /\ artists = [a \in Axes |-> <<>>] /\ legend = [a \in Axes |-> <<>>]
    /\ styled = {} /\ handles = <<>> /\ labels = <<>>
    /\ data_cache = [parts |-> <<>>, shape |-> <<0, GridLen>>]
    /\ mu_all = [set |-> FALSE, sum |-> 0, n |-> 0]
    /\ sigma_all = [set |-> FALSE, sq |-> 0, ipart |-> 0]

ExtractIdle ==
    /\ in_file_name = <<>> /\ out_format = "csv"
    /\ bbox = [long_min |-> 0, long_max |-> 3600, lat_min |-> -900, lat_max |-> 900]
    /\ h5 = [rows |-> <<>>, attrs |-> FileAttrs]
    /\ globals = [base |-> FALSE, gpd |-> FALSE, epoch |-> 0]
    /\ xpc = "idle" /\ frame = <<>> /\ written = <<>>

\* camel_plot called once on a table of at most MaxLen rows.
Init == CamelInit /\ ExtractIdle

Next == CamelNext

Spec == Init /\ [][Next]_vars

\* extract_elevation_from_glah14 called once on a file of at most MaxRows rows.
InitExtract == ExtractInit /\ CamelIdle

NextExtract == ExtractNext

SpecExtract == InitExtract /\ [][NextExtract]_vars


\* ------------------------------------------------ properties: camel_plot

\* The sum of f over a finite set of indices.
RECURSIVE IndexSum(_, _)
IndexSum(S, f) ==
    IF S = {} THEN 0
    ELSE LET k == CHOOSE k \in S : TRUE IN f[k] + IndexSum(S \ {k}, f)

IsCurve(art) == art.kind \in {"line", "fill"}
IsText(art) == art.kind = "text"

\* The curves and filled regions on an axes, and its annotations, in drawing order.
CurvesOn(a) == SelectSeq(artists[a], IsCurve)
TextsOn(a) == SelectSeq(artists[a], IsText)

\* The table the spec's example gives.
ExampleTable ==
    << [age |-> 21000, uncertainty |-> 3000, group |-> "a"],
       [age |-> 16900, uncertainty |-> 2100, group |-> "b"],
       [age |-> 7500,  uncertainty |-> 2000, group |-> "blank"] >>

\* C1: for every non-empty table the pass never fails, `ax` stays the axes it
\* was given, the rows drawn so far are on that axes in table order (blank as a
\* filled region, the others as lines), and a finished call has built the
\* legend and applied the styling on that axes.
C1_RendersOnTarget ==
    Len(df) > 0 =>
        /\ pc # "error"
        /\ ax = "target"
        /\ Len(CurvesOn("target")) = i - 1
        /\ \A k \in 1..Len(CurvesOn("target")) :
              /\ CurvesOn("target")[k].label = df[k].group
              /\ CurvesOn("target")[k].kind =
                    IF df[k].group = "blank" THEN "fill" ELSE "line"
        /\ pc = "done" =>
              /\ i = Len(df) + 1
              /\ legend["target"] # <<>>
              /\ styled = {"target"}

\* C2: once computed, the aggregate mean is the sum of the ages of the eligible
\* rows (all rows, or the rows whose group is not "blank" when has_blank is
\* true) over their number, and the aggregate uncertainty is the square root
\* of the sum of the squared uncertainties of ALL rows, for either flag.
C2_AggregateAsymmetry ==
    mu_all.set =>
        LET all      == 1..Len(df)
            eligible == {k \in all : ~has_blank \/ df[k].group # "blank"}
            sq       == IndexSum(all, [k \in all |-> df[k].uncertainty * df[k].uncertainty])
        IN  /\ mu_all.sum = IndexSum(eligible, [k \in all |-> df[k].age])
            /\ mu_all.n = Cardinality(eligible)
            /\ sigma_all.set
            /\ sigma_all.sq = sq
            /\ sigma_all.ipart * sigma_all.ipart <= sq
            /\ sq < (sigma_all.ipart + 1) * (sigma_all.ipart + 1)

\* C2's case: the aggregate was computed with has_blank true over a table that
\* holds a blank row and a non-blank row.
C2_Witness ==
    /\ mu_all.set
    /\ has_blank
    /\ \E k \in 1..Len(df) : df[k].group = "blank"
    /\ \E k \in 1..Len(df) : df[k].group # "blank"

\* C3 as the spec states it: on the example table with has_blank true the mean
\* is 18950 and the integer part of the uncertainty is 4123.
C3_AsStated ==
    (df = ExampleTable /\ has_blank /\ mu_all.set) =>
        /\ mu_all.sum = 18950 * mu_all.n
        /\ sigma_all.ipart = 4123
        /\ 4123 * 4123 <= sigma_all.sq
        /\ sigma_all.sq < 4124 * 4124

\* C3, amended: on the example table with has_blank true the mean is 18950 and
\* the uncertainty is sqrt(3000^2 + 2100^2 + 2000^2) = sqrt(17410000), whose
\* integer part is 4172; the legend prints "18950" and "4173".
C3_ExampleAggregate ==
    (df = ExampleTable /\ has_blank /\ mu_all.set) =>
        /\ mu_all.n > 0
        /\ mu_all.sum = 18950 * mu_all.n
        /\ sigma_all.sq = 17410000
        /\ sigma_all.ipart = 4172
        /\ 4172 * 4172 <= sigma_all.sq
        /\ sigma_all.sq < 4173 * 4173
        /\ labels[Len(labels)] = [mu |-> "18950", sigma |-> "4173"]

C3_Witness == df = ExampleTable /\ has_blank /\ mu_all.set

\* What C4 says of the two lists in both its forms: they have equal length,
\* entry k is row k's and the one after the last row's is the "Mean" entry, so
\* the "overall" overlay has no entry in them.
ListsInStep ==
    /\ Len(handles) = Len(labels)
    /\ Len(handles) <= Len(df) + 1
    /\ \A k \in 1..Len(handles) :
          IF k <= Len(df)
          THEN /\ handles[k].text = df[k].group \o ":"
               /\ handles[k].color # "black"
               /\ labels[k] = [mu |-> ToString(df[k].age),
                               sigma |-> ToString(df[k].uncertainty)]
          ELSE handles[k] = [text |-> "Mean :", color |-> "black"]

LegendInTableOrder(a) ==
    /\ \A k \in 1..Len(df) :
          k <= Len(legend[a]) => legend[a][k].text = df[k].group \o ":"
    /\ Len(legend[a]) > Len(df) => legend[a][Len(df) + 1].text = "Mean :"

\* C4 as the spec states it: a built legend has n + 1 entries without the
\* overlay and n + 2 with it.
C4_AsStated ==
    /\ ListsInStep
    /\ \A a \in Axes :
          legend[a] # <<>> =>
              /\ Len(legend[a]) = Len(df) + 1 + (IF overall THEN 1 ELSE 0)
              /\ LegendInTableOrder(a)

\* C4, amended: a built legend has n + 1 entries whether or not the overlay is
\* drawn: one per row in table order, then "Mean"; the overlay has no entry.
C4_LegendCount ==
    /\ ListsInStep
    /\ \A a \in Axes :
          legend[a] # <<>> =>
              /\ Len(legend[a]) = Len(df) + 1
              /\ LegendInTableOrder(a)
              /\ \A k \in 1..Len(legend[a]) : legend[a][k].text # "overall"

\* C4's case: the overlay was drawn and the legend built over a non-empty table.
C4_Witness ==
    /\ overall
    /\ pc = "done"
    /\ Len(df) > 0
    /\ \E k \in 1..Len(artists[Gca]) : artists[Gca][k].kind = "kde"
    /\ legend[ax] # <<>>

\* C5: a failed call leaves every axes as it was before the call: no curve, no
\* filled region, no annotation, no legend, no styling.
C5_AllOrNothing ==
    pc = "error" =>
        /\ \A a \in Axes : artists[a] = <<>> /\ legend[a] = <<>>
        /\ styled = {}

\* C6: a call on the empty table never completes normally.
C6_EmptyTableFails == df = <<>> => pc # "done"

\* C10: every line drawn for a row with sigma > 0 has 100 evenly spaced
\* abscissae from mu - 4 sigma to mu + 4 sigma (stored times 99), and the height
\* of the row's annotation is the greatest ordinate of the line, which the line
\* takes at a grid point nearest to mu.
C10_GridAndPeak ==
    \A k \in 1..Len(CurvesOn("target")) :
        LET row == df[k]
            c   == CurvesOn("target")[k]
            far(j) == Abs(c.xdata[j] - 99 * row.age)
        IN  (row.group # "blank" /\ row.uncertainty > 0) =>
                /\ Len(c.xdata) = 100
                /\ Len(c.ydata) = 100
                /\ c.xdata[1] = 99 * (row.age - 4 * row.uncertainty)
                /\ c.xdata[100] = 99 * (row.age + 4 * row.uncertainty)
                /\ \A j \in 1..99 : c.xdata[j + 1] - c.xdata[j] = 8 * row.uncertainty
                /\ k <= Len(TextsOn(Gca))
                /\ TextsOn(Gca)[k].label = row.group
                /\ \A j \in 1..100 : c.ydata[j] <= TextsOn(Gca)[k].ydata[1]
                /\ \E j \in 1..100 :
                      /\ \A m \in 1..100 : far(j) <= far(m)
                      /\ c.ydata[j] = TextsOn(Gca)[k].ydata[1]

\* C10's case: the lines of two rows with sigma > 0 are drawn and annotated.
C10_Witness ==
    /\ Len(CurvesOn("target")) >= 2
    /\ CurvesOn("target")[1].kind = "line"
    /\ CurvesOn("target")[2].kind = "line"
    /\ df[1].uncertainty > 0
    /\ df[2].uncertainty > 0
    /\ Len(TextsOn(Gca)) >= 2


\* ------------------------- properties: extract_elevation_from_glah14

\* The rows of the files written, each with the row of the input file it
\* comes from (idx is the position pandas gave the row when it was read).
Emitted ==
    UNION { { [out |-> written[f].rows[k], src |-> h5.rows[written[f].rows[k].idx + 1]] :
                k \in 1..Len(written[f].rows) } : f \in 1..Len(written) }

\* The longitude a written row carries: a column of the csv, the x of the
\* geometry of the shapefile.
LonOf(r) == IF "geometry" \in DOMAIN r THEN r.geometry.x ELSE r.Longitude

InRange(v, field) == h5.attrs[field][1] <= v /\ v <= h5.attrs[field][2]

\* C7: every written row comes from a row whose flags have the accepted
\* values, whose position is strictly inside the box, and whose elevation,
\* satellite elevation correction, elevation bias correction and DEM elevation
\* are all inside their valid_min..valid_max.
C7_OnlyValidRows ==
    \A e \in Emitted :
        /\ e.src.sat_flg = 2
        /\ e.src.use_flg = 0
        /\ bbox.lat_min < e.src.lat /\ e.src.lat < bbox.lat_max
        /\ bbox.long_min < e.src.lon /\ e.src.lon < bbox.long_max
        /\ InRange(e.src.elev, "elev")
        /\ InRange(e.src.sat, "sat")
        /\ InRange(e.src.bias, "bias")
        /\ InRange(e.src.srtm, "srtm")

\* What C8 says in both its forms: a written row whose input longitude L is in
\* 0..360 carries L - 360 when L > 180 and L otherwise, and L itself, not the
\* remapped value, is strictly inside the box.
RemappedAfterFilter(e) ==
    /\ LonOf(e.out) = IF e.src.lon > 1800 THEN e.src.lon - 3600 ELSE e.src.lon
    /\ bbox.long_min < e.src.lon
    /\ e.src.lon < bbox.long_max

StripExtension(path) ==
    LET dots == {k \in 1..Len(path) :
                    /\ path[k] = "."
                    /\ \A j \in k..Len(path) : path[j] # "/"
                    /\ k > 1 /\ path[k - 1] # "/"}
    IN  IF dots = {} THEN path
        ELSE SubSeq(path, 1, (CHOOSE k \in dots : \A j \in dots : j <= k) - 1)

\* C9: a finished call has written exactly one file, at the input path with
\* its final extension replaced by ".csv" or ".shp".
C9_OutputBesideInput ==
    xpc = "done" =>
        /\ Len(written) = 1
        /\ written[1].path =
              StripExtension(in_file_name) \o
              (IF out_format = "csv" THEN <<".", "c", "s", "v">>
                                     ELSE <<".", "s", "h", "p">>)

====
